---------------------------- MODULE Spec2Model ----------------------------
(***************************************************************************)
(* jenkins_script.main(): one invocation of the module, from the parsed    *)
(* parameters to fail_json / exit_json.  Strings are sequences of          *)
(* one-character strings, so concatenation, substring search, template     *)
(* scanning and url-encoding are computed on the characters.  The str      *)
(* type is the byte string returned by resp.read() (the module's RETURN    *)
(* block documents output as a string).                                    *)
(***************************************************************************)
EXTENDS Integers, Sequences, FiniteSets, TLC

\* ---- bounds -------------------------------------------------------------
MaxScriptLen == 2      \* longest script of the request/response runs (Spec)
MaxTemplateLen == 4    \* longest script of the rendering runs (SpecRender)
MaxBodyChunks == 2     \* longest response body, in chunks of BodyChunks

\* ---- Python None / values -----------------------------------------------
None == [isNone |-> TRUE]
Some(v) == [isNone |-> FALSE, value |-> v]

\* ---- string literals of the source --------------------------------------
ScriptTextPath == <<"/", "s", "c", "r", "i", "p", "t", "T", "e", "x", "t">>
ScriptField == <<"s", "c", "r", "i", "p", "t", "=">>
MsgPasswordRequired == <<"p", "a", "s", "s", "w", "o", "r", "d", " ", "r", "e", "q", "u", "i", "r", "e", "d", " ", "w", "h", "e", "n", " ", "u", "s", "e", "r", " ", "p", "r", "o", "v", "i", "d", "e", "d">>
HttpErrorPrefix == <<"H", "T", "T", "P", " ", "e", "r", "r", "o", "r", " ">>
StacktracePrefix == <<"s", "c", "r", "i", "p", "t", " ", "f", "a", "i", "l", "e", "d", " ", "w", "i", "t", "h", " ", "s", "t", "a", "c", "k", "t", "r", "a", "c", "e", ":", "\n", " ">>
ExceptionMark == <<"E", "x", "c", "e", "p", "t", "i", "o", "n", ":">>
ThreadMark == <<"a", "t", " ", "j", "a", "v", "a", ".", "l", "a", "n", "g", ".", "T", "h", "r", "e", "a", "d">>
UrlDefault == <<"h", "t", "t", "p", ":", "/", "/", "l", "o", "c", "a", "l", "h", "o", "s", "t", ":", "8", "0", "8", "0">>
HttpOk == 200

\* ---- inputs of the runs -------------------------------------------------
UrlHttps == <<"h", "t", "t", "p", "s", ":", "/", "/", "l", "o", "c", "a", "l", "h", "o", "s", "t">>
TextResult == <<"R", "e", "s", "u", "l", "t", ":", " ", "t", "r", "u", "e">>
TextException == <<"E", "x", "c", "e", "p", "t", "i", "o", "n">>
MsgRefused == <<"R", "e", "q", "u", "e", "s", "t", " ", "f", "a", "i", "l", "e", "d", ":", " ", "r", "e", "f", "u", "s", "e", "d">>
MsgTimeout == <<"C", "o", "n", "n", "e", "c", "t", "i", "o", "n", " ", "f", "a", "i", "l", "u", "r", "e", ":", " ", "t", "i", "m", "e", "d", " ", "o", "u", "t">>
MsgOK == <<"O", "K">>
MsgServerError == <<"S", "e", "r", "v", "e", "r", " ", "E", "r", "r", "o", "r">>
UserAdmin == <<"a", "d", "m", "i", "n">>
PasswordSecret == <<"s", "3", "c", "r", "e", "t">>
KeyError == <<"K", "e", "y", "E", "r", "r", "o", "r">>
ValueError == <<"V", "a", "l", "u", "e", "E", "r", "r", "o", "r">>
AttributeError == <<"A", "t", "t", "r", "i", "b", "u", "t", "e", "E", "r", "r", "o", "r">>

TemplateChars == {"$", "{", "}", "a"}
BodyChunks == {ExceptionMark, ThreadMark, TextException, <<":">>, TextResult}
NoResponseStatus == -1
ServerErrorStatus == 500

RECURSIVE Strings(_, _)
Strings(chars, n) ==
    IF n = 0 THEN {<<>>}
    ELSE LET S == Strings(chars, n - 1)
         IN  S \cup {Append(s, c) : s \in S, c \in chars}

RECURSIVE Bodies(_)
Bodies(n) ==
    IF n = 0 THEN {<<>>}
    ELSE LET B == Bodies(n - 1)
         IN  B \cup {b \o c : b \in B, c \in BodyChunks}

StrVal(s) == [type |-> "str", v |-> s]
IntVal(n) == [type |-> "int", v |-> n]
NameA == <<"a">>
NameAA == <<"a", "a">>
\* args: absent, an empty dict, and dicts with one and two keys
ArgsValues ==
    { None,
      Some(<<>>),
      Some([k \in {NameA} |-> StrVal(<<"$", "a">>)]),
      Some([k \in {NameA, NameAA} |-> IF k = NameA THEN StrVal(<<"x">>) ELSE IntVal(-70)]) }

\* ---- str(int) -----------------------------------------------------------
Digit(d) == <<CASE d = 0 -> "0" [] d = 1 -> "1" [] d = 2 -> "2" [] d = 3 -> "3"
                [] d = 4 -> "4" [] d = 5 -> "5" [] d = 6 -> "6" [] d = 7 -> "7"
                [] d = 8 -> "8" [] d = 9 -> "9">>

RECURSIVE NatStr(_)
NatStr(n) == IF n < 10 THEN Digit(n) ELSE NatStr(n \div 10) \o Digit(n % 10)

str(x) ==
    IF x.type = "str" THEN x.v
    ELSE IF x.v < 0 THEN <<"-">> \o NatStr(0 - x.v) ELSE NatStr(x.v)

\* ---- 'needle in haystack' -----------------------------------------------
Contains(needle, hay) ==
    \E i \in 1..(Len(hay) - Len(needle) + 1) :
        SubSeq(hay, i, i + Len(needle) - 1) = needle

\* ---- string.Template ----------------------------------------------------
Letters == {"a", "b", "c", "d", "e", "f", "g", "h", "i", "j", "k", "l", "m",
            "n", "o", "p", "q", "r", "s", "t", "u", "v", "w", "x", "y", "z",
            "A", "B", "C", "D", "E", "F", "G", "H", "I", "J", "K", "L", "M",
            "N", "O", "P", "Q", "R", "S", "T", "U", "V", "W", "X", "Y", "Z"}
Digits == {"0", "1", "2", "3", "4", "5", "6", "7", "8", "9"}
IdStart == Letters \cup {"_"}
IdCont == IdStart \cup Digits

RECURSIVE IdRun(_)
IdRun(s) == IF s = <<>> \/ Head(s) \notin IdCont THEN 0 ELSE 1 + IdRun(Tail(s))

\* length of the longest prefix of s matching [_a-z][_a-z0-9]* (IGNORECASE)
IdentLen(s) == IF s = <<>> \/ Head(s) \notin IdStart THEN 0 ELSE 1 + IdRun(Tail(s))

\* the group of Template.pattern that matches right after a "$"; len is the
\* number of characters the match consumes after the "$"
Match(r) ==
    IF r # <<>> /\ Head(r) = "$"
    THEN [group |-> "escaped", name |-> <<>>, len |-> 1]
    ELSE IF IdentLen(r) > 0
    THEN [group |-> "named", name |-> SubSeq(r, 1, IdentLen(r)), len |-> IdentLen(r)]
    ELSE IF /\ r # <<>>
            /\ Head(r) = "{"
            /\ IdentLen(Tail(r)) > 0
            /\ Len(r) >= IdentLen(Tail(r)) + 2
            /\ r[IdentLen(Tail(r)) + 2] = "}"
    THEN [group |-> "braced", name |-> SubSeq(r, 2, IdentLen(Tail(r)) + 1),
          len |-> IdentLen(Tail(r)) + 2]
    ELSE [group |-> "invalid", name |-> <<>>, len |-> 0]

Ok(text) == [ok |-> TRUE, text |-> text]
Raise(exc) == [ok |-> FALSE, text |-> exc]

\* safe_substitute's convert: a missing key leaves the placeholder in place
convertSafe(mo, mapping) ==
    IF mo.group \in {"named", "braced"}
    THEN IF mo.name \in DOMAIN mapping THEN Ok(str(mapping[mo.name]))
         ELSE Ok(IF mo.group = "named" THEN <<"$">> \o mo.name
                 ELSE <<"$", "{">> \o mo.name \o <<"}">>)
    ELSE IF mo.group = "escaped" THEN Ok(<<"$">>)
    ELSE Raise(ValueError)

\* the replacement of one match, or the exception it raises
convert(mo, mapping) ==
    IF mo.group \in {"named", "braced"}
    THEN IF mo.name \in DOMAIN mapping THEN Ok(str(mapping[mo.name]))
         ELSE Raise(KeyError)
    ELSE IF mo.group = "escaped" THEN Ok(<<"$">>)
    ELSE Raise(ValueError)

\* Template(template).substitute(mapping): pattern.sub(convert, template),
\* left to right, the first exception ends the call
RECURSIVE substitute(_, _)
substitute(template, mapping) ==
    IF template = <<>> THEN Ok(<<>>)
    ELSE IF Head(template) # "$"
    THEN LET rest == substitute(Tail(template), mapping)
         IN  IF rest.ok THEN Ok(<<Head(template)>> \o rest.text) ELSE rest
    ELSE LET mo == Match(Tail(template))
             c == convert(mo, mapping)
             rest == substitute(SubSeq(template, 2 + mo.len, Len(template)), mapping)
         IN  IF ~c.ok THEN c
             ELSE IF rest.ok THEN Ok(c.text \o rest.text) ELSE rest

\* the names of the $name and ${name} placeholders Template.pattern finds
RECURSIVE Placeholders(_)
Placeholders(template) ==
    IF template = <<>> THEN {}
    ELSE IF Head(template) # "$" THEN Placeholders(Tail(template))
    ELSE LET mo == Match(Tail(template))
         IN  (IF mo.group \in {"named", "braced"} THEN {mo.name} ELSE {})
             \cup Placeholders(SubSeq(template, 2 + mo.len, Len(template)))

\* ---- lines 150-154: the script that is sent -----------------------------
\* str.format-style rendering: {name} is the placeholder, "$" is plain text
RECURSIVE formatBraces(_, _)
formatBraces(script, mapping) ==
    IF script = <<>> THEN <<>>
    ELSE IF /\ Head(script) = "{"
            /\ IdentLen(Tail(script)) > 0
            /\ Len(script) >= IdentLen(Tail(script)) + 2
            /\ script[IdentLen(Tail(script)) + 2] = "}"
            /\ SubSeq(script, 2, IdentLen(Tail(script)) + 1) \in DOMAIN mapping
    THEN str(mapping[SubSeq(script, 2, IdentLen(Tail(script)) + 1)])
         \o formatBraces(SubSeq(script, IdentLen(Tail(script)) + 3, Len(script)), mapping)
    ELSE <<Head(script)>> \o formatBraces(Tail(script), mapping)

renderFormat(script, args) ==
    IF ~args.isNone THEN Ok(formatBraces(script, args.value)) ELSE Ok(script)

\* the template is expanded whether or not args was given
renderAlways(script, args) ==
    substitute(script, IF args.isNone THEN <<>> ELSE args.value)

render(script, args) ==
    IF ~args.isNone THEN substitute(script, args.value) ELSE Ok(script)

\* ---- urlencode({'script': s}) -------------------------------------------
quote_plus(s) ==
    [i \in 1..Len(s) |->
        IF s[i] \in IdCont \cup {".", "-"} THEN <<s[i]>>
        ELSE CASE s[i] = " " -> <<"+">>
               [] s[i] = "$" -> <<"%", "2", "4">>
               [] s[i] = "{" -> <<"%", "7", "B">>
               [] s[i] = "}" -> <<"%", "7", "D">>
               [] s[i] = ":" -> <<"%", "3", "A">>]

RECURSIVE Flatten(_)
Flatten(ss) == IF ss = <<>> THEN <<>> ELSE Head(ss) \o Flatten(Tail(ss))

urlencode(script_contents) == ScriptField \o Flatten(quote_plus(script_contents))

\* ---- what fetch_url can hand back: (resp, info) --------------------------
StatusMsg(status) == IF status = HttpOk THEN MsgOK ELSE MsgServerError

Reply(resp, status, msg) == [resp |-> resp, info |-> [status |-> status, msg |-> msg]]

\* no HTTP response was obtained: resp is None, info carries the diagnostic
TransportErrors == {Reply(None, NoResponseStatus, m) : m \in {MsgRefused, MsgTimeout}}

HttpReplies(bodies) ==
    {Reply(Some(b), s, StatusMsg(s)) : s \in {HttpOk, ServerErrorStatus}, b \in bodies}

Transports == TransportErrors \cup HttpReplies(Bodies(MaxBodyChunks))

RenderTransports ==
    {Reply(None, NoResponseStatus, MsgRefused)}
        \cup HttpReplies({TextResult, ExceptionMark \o ThreadMark})

\* ---- state ---------------------------------------------------------------
VARIABLES
    params,           \* module.params
    transport,        \* the (resp, info) fetch_url returns when it is called
    pc,               \* the statement main() is at
    script_contents,  \* local of main(), None until assigned
    requests,         \* the calls of fetch_url made so far, in order
    resp,             \* local of main()
    info,             \* local of main()
    result,           \* local of main()
    outcomes          \* the fail_json / exit_json calls and uncaught exceptions

vars == <<params, transport, pc, script_contents, requests, resp, info, result, outcomes>>

Outcome(call, line, text) == [call |-> call, line |-> line, text |-> text]

ParamsOf(scripts, urls, certs) ==
    [script : scripts, url : urls, validate_certs : certs,
     user : {None, Some(UserAdmin)}, password : {None, Some(PasswordSecret)},
     args : ArgsValues]

Start(paramSet, transportSet) ==
    /\ params \in paramSet
    /\ transport \in transportSet
    /\ pc = "check_user"
    /\ script_contents = None
    /\ requests = <<>>
    /\ resp = None
    /\ info = None
    /\ result = None
    /\ outcomes = <<>>

Init ==
    Start(ParamsOf(Strings(TemplateChars, MaxScriptLen), {UrlDefault, UrlHttps}, BOOLEAN),
          Transports)

InitRender ==
    Start(ParamsOf(Strings(TemplateChars, MaxTemplateLen), {UrlDefault}, {TRUE}),
          RenderTransports)

\* module.fail_json / module.exit_json end the process
Exit(call, line, text) ==
    /\ outcomes' = Append(outcomes, Outcome(call, line, text))
    /\ pc' = "done"

\* ---- lines 142-147 -------------------------------------------------------
CheckUserNoPasswordCheck ==
    /\ pc = "check_user"
    /\ IF ~params.user.isNone
       THEN params' = [url_username |-> params.user,
                       url_password |-> params.password,
                       force_basic_auth |-> TRUE] @@ params
       ELSE UNCHANGED params
    /\ pc' = "render"
    /\ UNCHANGED <<transport, script_contents, requests, resp, info, result, outcomes>>

CheckUserCopyPaste ==
    /\ pc = "check_user"
    /\ IF ~params.user.isNone
       THEN IF params.password.isNone
            THEN /\ Exit("fail_json", 144, MsgPasswordRequired)
                 /\ UNCHANGED params
            ELSE /\ params' = [url_username |-> params.user,
                               url_password |-> params.user,
                               force_basic_auth |-> TRUE] @@ params
                 /\ pc' = "render"
                 /\ UNCHANGED outcomes
       ELSE /\ pc' = "render"
            /\ UNCHANGED <<params, outcomes>>
    /\ UNCHANGED <<transport, script_contents, requests, resp, info, result>>

CheckUser ==
    /\ pc = "check_user"
    /\ IF ~params.user.isNone
       THEN IF params.password.isNone
            THEN /\ Exit("fail_json", 144, MsgPasswordRequired)
                 /\ UNCHANGED params
            ELSE /\ params' = [url_username |-> params.user,
                               url_password |-> params.password,
                               force_basic_auth |-> TRUE] @@ params
                 /\ pc' = "render"
                 /\ UNCHANGED outcomes
       ELSE /\ pc' = "render"
            /\ UNCHANGED <<params, outcomes>>
    /\ UNCHANGED <<transport, script_contents, requests, resp, info, result>>

\* ---- lines 150-154 -------------------------------------------------------
Render ==
    /\ pc = "render"
    /\ LET r == render(params.script, params.args)
       IN  IF r.ok
           THEN /\ script_contents' = Some(r.text)
                /\ pc' = "fetch_url"
                /\ UNCHANGED outcomes
           ELSE /\ Exit("raise", 152, r.text)
                /\ UNCHANGED script_contents
    /\ UNCHANGED <<params, transport, requests, resp, info, result>>

\* ---- lines 157-160 -------------------------------------------------------
FetchUrl ==
    /\ pc = "fetch_url"
    /\ requests' = Append(requests,
                          [module_params |-> params,
                           url |-> params.url \o ScriptTextPath,
                           data |-> urlencode(script_contents.value),
                           method |-> "POST"])
    /\ resp' = transport.resp
    /\ info' = transport.info
    /\ pc' = "check_status"
    /\ UNCHANGED <<params, transport, script_contents, result, outcomes>>

\* ---- lines 162-163 -------------------------------------------------------
HttpErrorMsg(status, msg) == HttpErrorPrefix \o str(IntVal(status)) \o <<" ">> \o msg

\* a failed request is submitted again
CheckStatusRetry ==
    /\ pc = "check_status"
    /\ IF info.status # HttpOk
       THEN IF Len(requests) < 2
            THEN /\ pc' = "fetch_url"
                 /\ UNCHANGED outcomes
            ELSE Exit("fail_json", 163, HttpErrorMsg(info.status, info.msg))
       ELSE /\ pc' = "read"
            /\ UNCHANGED outcomes
    /\ UNCHANGED <<params, transport, script_contents, requests, resp, info, result>>

\* the status is not looked at
CheckStatusIgnore ==
    /\ pc = "check_status"
    /\ pc' = "read"
    /\ UNCHANGED <<params, transport, script_contents, requests, resp, info, result, outcomes>>

\* the message leaves out info["msg"]
CheckStatusNoMsg ==
    /\ pc = "check_status"
    /\ IF info.status # HttpOk
       THEN Exit("fail_json", 163, HttpErrorPrefix \o str(IntVal(info.status)))
       ELSE /\ pc' = "read"
            /\ UNCHANGED outcomes
    /\ UNCHANGED <<params, transport, script_contents, requests, resp, info, result>>

CheckStatus ==
    /\ pc = "check_status"
    /\ IF info.status # HttpOk
       THEN Exit("fail_json", 163, HttpErrorMsg(info.status, info.msg))
       ELSE /\ pc' = "read"
            /\ UNCHANGED outcomes
    /\ UNCHANGED <<params, transport, script_contents, requests, resp, info, result>>

\* ---- line 165 ------------------------------------------------------------
Read ==
    /\ pc = "read"
    /\ IF resp.isNone
       THEN /\ Exit("raise", 165, AttributeError)
            /\ UNCHANGED result
       ELSE /\ result' = Some(resp.value)
            /\ pc' = "classify"
            /\ UNCHANGED outcomes
    /\ UNCHANGED <<params, transport, script_contents, requests, resp, info>>

\* ---- lines 167-172 -------------------------------------------------------
IsStacktrace(text) == Contains(ExceptionMark, text) /\ Contains(ThreadMark, text)

\* 'or' in place of 'and'
ClassifyOr ==
    /\ pc = "classify"
    /\ IF Contains(ExceptionMark, result.value) \/ Contains(ThreadMark, result.value)
       THEN Exit("fail_json", 168, StacktracePrefix \o result.value)
       ELSE Exit("exit_json", 170, result.value)
    /\ UNCHANGED <<params, transport, script_contents, requests, resp, info, result>>

\* fail_json returns to its caller, and exit_json runs after it
ClassifyFallThrough ==
    /\ pc = "classify"
    /\ outcomes' =
           IF IsStacktrace(result.value)
           THEN outcomes \o <<Outcome("fail_json", 168, StacktracePrefix \o result.value),
                              Outcome("exit_json", 170, result.value)>>
           ELSE Append(outcomes, Outcome("exit_json", 170, result.value))
    /\ pc' = "done"
    /\ UNCHANGED <<params, transport, script_contents, requests, resp, info, result>>

Classify ==
    /\ pc = "classify"
    /\ IF IsStacktrace(result.value)
       THEN Exit("fail_json", 168, StacktracePrefix \o result.value)
       ELSE Exit("exit_json", 170, result.value)
    /\ UNCHANGED <<params, transport, script_contents, requests, resp, info, result>>

Next ==
    \/ CheckUser
    \/ Render
    \/ FetchUrl
    \/ CheckStatus
    \/ Read
    \/ Classify

Spec == Init /\ [][Next]_vars

SpecRender == InitRender /\ [][Next]_vars

\* ---- properties ----------------------------------------------------------
PasswordMissing == ~params.user.isNone /\ params.password.isNone
Rendered == render(params.script, params.args)
Sent == requests # <<>>
Finished == pc = "done"
AfterRender == pc \notin {"check_user", "render"}
NoDollar(s) == \A i \in 1..Len(s) : s[i] # "$"
StartsWith(prefix, text) ==
    Len(text) >= Len(prefix) /\ SubSeq(text, 1, Len(prefix)) = prefix

\* C1: with user supplied and password not supplied, the invocation ends with
\* fail_json("password required when user provided") and fetch_url is never
\* called, whatever script, args, url and validate_certs are.
C1_PasswordRequired ==
    PasswordMissing =>
        /\ requests = <<>>
        /\ pc \in {"check_user", "done"}
        /\ script_contents.isNone
        /\ Finished => outcomes = <<Outcome("fail_json", 144, MsgPasswordRequired)>>

C1_Witness ==
    /\ Finished
    /\ PasswordMissing
    /\ ~params.args.isNone
    /\ params.script = <<"$">>
    /\ params.url = UrlHttps
    /\ ~params.validate_certs

\* C2: fetch_url is called at most once in an invocation, and exactly once
\* when the user/password check and the rendering both succeed; no reply
\* (transport error, non-200, 200 with or without a stack trace) leads to a
\* second call.
C2_SingleSubmission ==
    /\ Len(requests) <= 1
    /\ pc \in {"check_status", "read", "classify"} => Len(requests) = 1
    /\ Finished =>
         (Len(requests) = 1 <=> (~PasswordMissing /\ Rendered.ok))

C2_Witness ==
    /\ Finished
    /\ Len(requests) = 1
    /\ info.status # HttpOk
    /\ ~resp.isNone

\* C3: for every reply whose status is not 200 the invocation ends with
\* fail_json("HTTP error " + status + " " + status text), whatever the body:
\* the body is not read, not classified and not returned.
C3_HttpStatusFailure ==
    (Finished /\ Sent /\ transport.info.status # HttpOk) =>
        /\ outcomes = <<Outcome("fail_json", 163,
                                HttpErrorPrefix \o str(IntVal(transport.info.status))
                                    \o <<" ">> \o transport.info.msg)>>
        /\ ~StartsWith(StacktracePrefix, outcomes[1].text)
        /\ result.isNone

C3_Witness ==
    /\ Finished
    /\ Sent
    /\ transport.info.status = ServerErrorStatus
    /\ ~transport.resp.isNone
    /\ IsStacktrace(transport.resp.value)
    /\ outcomes[1].line = 163

C5_MissingKey ==
    (~params.args.isNone
        /\ Placeholders(params.script) \ DOMAIN params.args.value # {}) =>
        /\ requests = <<>>
        /\ script_contents.isNone
        /\ pc \in {"check_user", "render", "done"}
        /\ (Finished /\ ~PasswordMissing) =>
             /\ Len(outcomes) = 1
             /\ outcomes[1].call = "raise"
             /\ outcomes[1].line = 152
             /\ outcomes[1].text \in {KeyError, ValueError}

C5_Witness ==
    /\ Finished
    /\ ~PasswordMissing
    /\ ~params.args.isNone
    /\ NameA \in DOMAIN params.args.value
    /\ params.script = <<"$", "a", "a">>
    /\ outcomes = <<Outcome("raise", 152, KeyError)>>
    /\ requests = <<>>

\* C6 as claimed: with args absent or an empty dict, the script that is sent
\* equals params.script character for character, for every script.
C6_AbsentOrEmpty ==
    (AfterRender /\ ~PasswordMissing
        /\ (params.args.isNone \/ DOMAIN params.args.value = {})) =>
        /\ script_contents = Some(params.script)
        /\ Sent => requests[1].data = urlencode(params.script)

\* C6 as amended: with args absent (None) the script that is sent equals
\* params.script character for character, with no placeholder scanning, for
\* every script, "$", "$$", "$name" and "${name}" included.
C6_Absent ==
    (AfterRender /\ ~PasswordMissing /\ params.args.isNone) =>
        /\ script_contents = Some(params.script)
        /\ pc # "fetch_url" => Sent /\ requests[1].data = urlencode(params.script)

C6_Witness ==
    /\ Finished
    /\ params.args.isNone
    /\ params.script = <<"$", "$", "$", "a">>
    /\ Sent
    /\ script_contents = Some(params.script)

C8_ExactlyOneOutcome ==
    /\ Len(outcomes) <= 1
    /\ Finished <=> Len(outcomes) = 1
    /\ \A i \in 1..Len(outcomes) :
         /\ outcomes[i].call \in {"fail_json", "exit_json", "raise"}
         /\ outcomes[i].line \in {144, 152} => requests = <<>> /\ script_contents.isNone
         /\ outcomes[i].line = 163 => result.isNone
         /\ outcomes[i].call = "exit_json" => outcomes[i].line = 170

C8_Witness ==
    /\ Finished
    /\ Len(outcomes) = 1
    /\ outcomes[1].call = "fail_json"
    /\ outcomes[1].line = 168
    /\ Len(requests) = 1

\* C9: with user and password both supplied, the request handed to
\* fetch_url is a POST to url + "/scriptText" whose module parameters carry
\* url_username = user, url_password = password and force_basic_auth = True;
\* the url and the form body hold nothing else than the url and the field
\* script = rendered script.
C9_BasicAuth ==
    (Sent /\ ~params.user.isNone /\ ~params.password.isNone) =>
        LET r == requests[1]
        IN  /\ r.method = "POST"
            /\ r.url = params.url \o ScriptTextPath
            /\ r.data = ScriptField \o Flatten(quote_plus(script_contents.value))
            /\ {"url_username", "url_password", "force_basic_auth"}
                   \subseteq DOMAIN r.module_params
            /\ r.module_params.url_username = Some(UserAdmin)
            /\ r.module_params.url_password = Some(PasswordSecret)
            /\ r.module_params.force_basic_auth = TRUE

C9_Witness ==
    /\ Sent
    /\ params.user = Some(UserAdmin)
    /\ params.password = Some(PasswordSecret)
    /\ requests[1].module_params.url_password = Some(PasswordSecret)
    /\ requests[1].url = UrlHttps \o ScriptTextPath
    /\ params.script = <<"$", "a">>
    /\ script_contents = Some(<<"$", "a">>)

\* C10 as claimed: for a script with no $name or ${name} placeholder and
\* any args (absent, empty or with keys), rendering succeeds and leaves the
\* script unchanged.
C10_NoPlaceholder ==
    (AfterRender /\ ~PasswordMissing /\ Placeholders(params.script) = {}) =>
        script_contents = Some(params.script)

\* C10 as amended: for a script that contains no "$" character and any args
\* (absent, empty or with keys), rendering succeeds and leaves the script
\* unchanged.
C10_NoDollar ==
    (AfterRender /\ ~PasswordMissing /\ NoDollar(params.script)) =>
        script_contents = Some(params.script)

C10_Witness ==
    /\ AfterRender
    /\ ~params.args.isNone
    /\ NameA \in DOMAIN params.args.value
    /\ params.script = <<"{", "a", "}", "a">>
    /\ script_contents = Some(params.script)
=============================================================================
